---- MODULE Spec2Model ----
(***************************************************************************)
(* Model of the throughput pipeline of crusader-lib/src/plot.rs:           *)
(* interpolate (resampling), sum_bytes (aggregation), to_rates (rate       *)
(* conversion), float_max and RawResult::to_test_result (assembly).        *)
(*                                                                         *)
(* f64 values are modelled as records [k, n, d]: k = "fin" is the exact    *)
(* rational n/d (d > 0, lowest terms), k = "nan", "pinf", "ninf" are the   *)
(* IEEE special values.  Arithmetic on finite values is exact (no          *)
(* rounding); timestamps are far below 2^64, so u64 additions do not wrap. *)
(***************************************************************************)
EXTENDS Integers, Sequences, FiniteSets, TLC

VARIABLES pc, input, interval, throughput, data, panicked, rates,
          values, fmax, run, result

vars == <<pc, input, interval, throughput, data, panicked, rates,
          values, fmax, run, result>>

----------------------------------------------------------------------------
(* Bounds of the model *)

MaxTime == 2
MaxVal == 1
MaxSamples == 2
MaxStreams == 2
MaxInterval == 2
MaxValues == 3
RunMaxStreams == 2
RunMaxGroups == 3

----------------------------------------------------------------------------
(* f64 *)

Abs(x) == IF x < 0 THEN -x ELSE x

RECURSIVE GCD(_, _)
GCD(a, b) == IF b = 0 THEN a ELSE GCD(b, a % b)

Fin(n, d) ==
    LET g == GCD(Abs(n), Abs(d))
        s == IF d < 0 THEN -1 ELSE 1
    IN [k |-> "fin", n |-> s * (n \div g), d |-> s * (d \div g)]

NaN == [k |-> "nan", n |-> 0, d |-> 1]
PInf == [k |-> "pinf", n |-> 0, d |-> 1]
NInf == [k |-> "ninf", n |-> 0, d |-> 1]

FromInt(v) == Fin(v, 1)

is_nan(x) == x.k = "nan"
is_finite(x) == x.k = "fin"

\* sign of a non-NaN value: -1, 0 or 1
Sign(x) ==
    CASE x.k = "pinf" -> 1
      [] x.k = "ninf" -> -1
      [] OTHER -> IF x.n > 0 THEN 1 ELSE IF x.n < 0 THEN -1 ELSE 0

Inf(s) == IF s < 0 THEN NInf ELSE PInf

\* a < b for non-NaN values
FLt(a, b) ==
    CASE a.k = "pinf" -> FALSE
      [] a.k = "ninf" -> b.k # "ninf"
      [] b.k = "pinf" -> TRUE
      [] b.k = "ninf" -> FALSE
      [] OTHER -> a.n * b.d < b.n * a.d

FLe(a, b) == a = b \/ FLt(a, b)

FNeg(a) ==
    CASE a.k = "nan" -> NaN
      [] a.k = "pinf" -> NInf
      [] a.k = "ninf" -> PInf
      [] OTHER -> Fin(-a.n, a.d)

FAdd(a, b) ==
    CASE is_nan(a) \/ is_nan(b) -> NaN
      [] is_finite(a) /\ is_finite(b) -> Fin(a.n * b.d + b.n * a.d, a.d * b.d)
      [] is_finite(a) -> b
      [] is_finite(b) -> a
      [] OTHER -> IF a.k = b.k THEN a ELSE NaN

FSub(a, b) == FAdd(a, FNeg(b))

FMul(a, b) ==
    CASE is_nan(a) \/ is_nan(b) -> NaN
      [] is_finite(a) /\ is_finite(b) -> Fin(a.n * b.n, a.d * b.d)
      [] OTHER -> IF Sign(a) * Sign(b) = 0 THEN NaN ELSE Inf(Sign(a) * Sign(b))

FDiv(a, b) ==
    CASE is_nan(a) \/ is_nan(b) -> NaN
      [] is_finite(a) /\ is_finite(b) ->
            IF b.n # 0 THEN Fin(a.n * b.d, a.d * b.n)
            ELSE IF a.n = 0 THEN NaN ELSE Inf(Sign(a))
      [] is_finite(a) -> Fin(0, 1)
      [] is_finite(b) -> Inf(Sign(a) * (IF Sign(b) < 0 THEN -1 ELSE 1))
      [] OTHER -> NaN

\* variant of f64_max that propagates NaN (as f64::maximum does)
f64_maximum(a, b) ==
    IF is_nan(a) \/ is_nan(b) THEN NaN
    ELSE IF FLt(a, b) THEN b ELSE a

\* f64::max: a NaN argument is ignored in favour of the other one
f64_max(a, b) ==
    IF is_nan(a) THEN b
    ELSE IF is_nan(b) THEN a
    ELSE IF FLt(a, b) THEN b ELSE a

----------------------------------------------------------------------------
(* float_max *)

RECURSIVE fold_max(_, _)
fold_max(acc, vs) ==
    IF vs = <<>> THEN acc ELSE fold_max(f64_max(acc, Head(vs)), Tail(vs))

float_max(vs) ==
    LET max == fold_max(NaN, vs)
    IN IF is_nan(max) THEN FromInt(100) ELSE max

----------------------------------------------------------------------------
(* to_float, to_rates *)

to_float(stream) == [i \in 1..Len(stream) |-> <<stream[i][1], FromInt(stream[i][2])>>]

\* Duration::from_micros(us).as_secs_f64()
as_secs_f64(us) == Fin(us, 1000000)

rate_at(stream, i) ==
    IF i > 1 THEN
        LET bytes == FSub(stream[i][2], stream[i - 1][2])
            duration == as_secs_f64(stream[i][1] - stream[i - 1][1])
            mbits == FDiv(FMul(bytes, FromInt(8)), FromInt(1000 * 1000))
        IN FDiv(mbits, duration)
    ELSE FromInt(0)

\* variant of to_rates whose leading sentinel uses saturating_sub(1)
to_rates_saturating(stream) ==
    LET res == [i \in 1..Len(stream) |-> <<stream[i][1], rate_at(stream, i)>>]
        first == IF res[1][1] >= 1 THEN res[1][1] - 1 ELSE 0
        pre == <<<<first, FromInt(0)>>>> \o res
    IN IF res = <<>> THEN res
       ELSE Append(pre, <<pre[Len(pre)][1] + 1, FromInt(0)>>)

\* variant of to_rates without the trailing zero point
to_rates_no_tail(stream) ==
    LET res == [i \in 1..Len(stream) |-> <<stream[i][1], rate_at(stream, i)>>]
    IN IF res = <<>> THEN res
       ELSE IF res[1][1] >= 1 THEN <<<<res[1][1] - 1, FromInt(0)>>>> \o res
       ELSE res

to_rates(stream) ==
    LET res == [i \in 1..Len(stream) |-> <<stream[i][1], rate_at(stream, i)>>]
        \* checked_sub(1) is None exactly when the first timestamp is 0
        pre == IF res[1][1] >= 1 THEN <<<<res[1][1] - 1, FromInt(0)>>>> \o res
               ELSE res
    IN IF res = <<>> THEN res
       ELSE Append(pre, <<pre[Len(pre)][1] + 1, FromInt(0)>>)

----------------------------------------------------------------------------
(* interpolate *)

\* (min..=max).step_by(step)
step_by(min, max, step) ==
    IF min > max THEN <<>>
    ELSE [j \in 1..((max - min) \div step + 1) |-> min + (j - 1) * step]

\* slice::partition_point(|e| e.0 < point), 0-based, on a time-ascending slice
partition_point(s, point) == Cardinality({j \in 1..Len(s) : s[j][1] < point})

\* variant of interpolate_value that interpolates from the later sample
interpolate_value_from_next(s, point) ==
    LET i == partition_point(s, point) + 1
    IN IF i = Len(s) + 1 THEN s[Len(s)][2]
       ELSE IF s[i][1] = point \/ i = 1 THEN s[i][2]
       ELSE LET len == s[i][1] - s[i - 1][1]
            IN IF len = 0 THEN s[i][2]
               ELSE LET ratio == FDiv(FromInt(point - s[i - 1][1]), FromInt(len))
                        delta == FSub(s[i][2], s[i - 1][2])
                    IN FAdd(s[i][2], FMul(delta, ratio))

\* variant of interpolate_value that takes the sample before an exact hit
interpolate_value_before_hit(s, point) ==
    LET i == partition_point(s, point) + 1
    IN IF i = Len(s) + 1 THEN s[Len(s)][2]
       ELSE IF i = 1 THEN s[i][2]
       ELSE IF s[i][1] = point THEN s[i - 1][2]
       ELSE LET len == s[i][1] - s[i - 1][1]
            IN IF len = 0 THEN s[i][2]
               ELSE LET ratio == FDiv(FromInt(point - s[i - 1][1]), FromInt(len))
                        delta == FSub(s[i][2], s[i - 1][2])
                    IN FAdd(s[i - 1][2], FMul(delta, ratio))

interpolate_value(s, point) ==
    LET i == partition_point(s, point) + 1
    IN IF i = Len(s) + 1 THEN s[Len(s)][2]
       ELSE IF s[i][1] = point \/ i = 1 THEN s[i][2]
       ELSE LET len == s[i][1] - s[i - 1][1]
            IN IF len = 0 THEN s[i][2]
               ELSE LET ratio == FDiv(FromInt(point - s[i - 1][1]), FromInt(len))
                        delta == FSub(s[i][2], s[i - 1][2])
                    IN FAdd(s[i - 1][2], FMul(delta, ratio))

\* variant of interpolate whose upper bound is rounded down
interpolate_floor_max(s, step) ==
    IF s = <<>> THEN <<>>
    ELSE LET min == (s[1][1] \div step) * step
             max == (s[Len(s)][1] \div step) * step
             grid == step_by(min, max, step)
         IN [j \in 1..Len(grid) |-> <<grid[j], interpolate_value(s, grid[j])>>]

\* variant of interpolate whose grid starts at the first sample's own time
interpolate_unaligned(s, step) ==
    IF s = <<>> THEN <<>>
    ELSE LET min == s[1][1]
             max == ((s[Len(s)][1] + step - 1) \div step) * step
             grid == step_by(min, max, step)
         IN [j \in 1..Len(grid) |-> <<grid[j], interpolate_value(s, grid[j])>>]

interpolate(s, step) ==
    IF s = <<>> THEN <<>>
    ELSE LET min == (s[1][1] \div step) * step
             max == ((s[Len(s)][1] + step - 1) \div step) * step
             grid == step_by(min, max, step)
         IN [j \in 1..Len(grid) |-> <<grid[j], interpolate_value(s, grid[j])>>]

----------------------------------------------------------------------------
(* sum_bytes *)

SetMin(S) == CHOOSE x \in S : \A y \in S : x <= y
SetMax(S) == CHOOSE x \in S : \A y \in S : x >= y

\* slice::binary_search_by_key(&point, |e| e.0) on strictly ascending keys:
\* Ok(i) when the key is present, Err(insertion index) otherwise (0-based)
binary_search_by_key(s, point) ==
    IF \E j \in 1..Len(s) : s[j][1] = point
    THEN [ok |-> TRUE, i |-> (CHOOSE j \in 1..Len(s) : s[j][1] = point) - 1]
    ELSE [ok |-> FALSE, i |-> partition_point(s, point)]

\* variant of contribution that holds the first value before the series starts
contribution_hold_first(s, point) ==
    LET r == binary_search_by_key(s, point)
    IN IF r.ok THEN s[r.i + 1][2]
       ELSE IF s = <<>> THEN FromInt(0)
       ELSE IF r.i = 0 THEN s[1][2]
       ELSE s[Len(s)][2]

\* variant of contribution that drops a series to 0 once it has ended
contribution_zero_after(s, point) ==
    LET r == binary_search_by_key(s, point)
    IN IF r.ok THEN s[r.i + 1][2] ELSE FromInt(0)

\* the three non-panicking arms of the match in sum_bytes
contribution(s, point) ==
    LET r == binary_search_by_key(s, point)
    IN IF r.ok THEN s[r.i + 1][2]
       ELSE IF r.i = 0 THEN FromInt(0)
       ELSE s[Len(s)][2]

\* the `_ => panic!("unexpected index")` arm
unexpected_index(s, point) ==
    LET r == binary_search_by_key(s, point)
    IN ~r.ok /\ r.i # 0 /\ r.i # Len(s)

RECURSIVE fsum(_)
fsum(vs) == IF vs = <<>> THEN FromInt(0) ELSE FAdd(fsum(SubSeq(vs, 1, Len(vs) - 1)), vs[Len(vs)])

first_time(tp) == {IF tp[j] = <<>> THEN 0 ELSE tp[j][1][1] : j \in 1..Len(tp)}
last_time(tp) == {IF tp[j] = <<>> THEN 0 ELSE tp[j][Len(tp[j])][1] : j \in 1..Len(tp)}

sum_min(tp) == IF tp = <<>> THEN 0 ELSE SetMin(first_time(tp))
sum_max(tp) == IF tp = <<>> THEN 0 ELSE SetMax(last_time(tp))

resampled(streams, step) == [j \in 1..Len(streams) |-> interpolate(streams[j], step)]

sum_grid(tp, step) == step_by(sum_min(tp), sum_max(tp), step)

sum_panics(tp, step) ==
    LET grid == sum_grid(tp, step)
    IN \E p \in 1..Len(grid), j \in 1..Len(tp) : unexpected_index(tp[j], grid[p])

sum_data(tp, step) ==
    LET grid == sum_grid(tp, step)
    IN [p \in 1..Len(grid) |->
          <<grid[p], fsum([j \in 1..Len(tp) |-> contribution(tp[j], grid[p])])>>]

\* result of sum_bytes: panic = TRUE when the "unexpected index" arm is hit
sum_bytes(streams, step) ==
    LET tp == resampled(streams, step)
    IN IF sum_panics(tp, step) THEN [panic |-> TRUE, data |-> <<>>]
       ELSE [panic |-> FALSE, data |-> sum_data(tp, step)]

----------------------------------------------------------------------------
(* Inputs *)

Ascending(s) == \A j \in 1..(Len(s) - 1) : s[j][1] <= s[j + 1][1]

\* raw streams of n time-ascending (u64 microseconds, u64 bytes) samples
SeriesOfLen(n) == {s \in [1..n -> (0..MaxTime) \X (0..MaxVal)] : Ascending(s)}

SeriesWithin(budget) == UNION {SeriesOfLen(n) : n \in 0..budget}

\* every list of at most n raw streams with at most budget samples in all
RECURSIVE ListsWithin(_, _)
ListsWithin(n, budget) ==
    IF n = 0 THEN {<<>>}
    ELSE {<<>>} \cup
         UNION {{<<s>> \o l : l \in ListsWithin(n - 1, budget - Len(s))} :
                  s \in SeriesWithin(budget)}

RawLists == ListsWithin(MaxStreams, MaxSamples)

Intervals == 1..MaxInterval

\* streams with unaligned ends, three samples, duplicate timestamps, a single
\* sample, a long gap, falling values, and no sample at all
Examples ==
    {<<>>,
     <<<<1, 0>>, <<4, 3>>>>,
     <<<<0, 2>>, <<3, 2>>, <<5, 7>>>>,
     <<<<2, 1>>, <<2, 4>>, <<5, 4>>>>,
     <<<<3, 5>>>>,
     <<<<0, 0>>, <<6, 3>>>>,
     <<<<1, 3>>, <<3, 1>>>>}

ExampleLists == UNION {[1..n -> Examples] : n \in 1..3}
ExampleIntervals == {1, 2, 3}

\* one stream of 1,000,000 bytes over one second
Scenario1 == <<<<<<0, 0>>, <<1000000, 1000000>>>>>>
\* two streams, the second starting late
Scenario2 == <<<<<<0, 0>>, <<1000000, 500000>>>>, <<<<500000, 0>>, <<1000000, 500000>>>>>>
ScenarioInterval == 1000000 \div 2

Float(l) == [j \in 1..Len(l) |-> to_float(l[j])]

\* the f64 values float_max is tried on
Floats == {NaN, PInf, NInf} \cup {FromInt(v) : v \in (0 - 1)..MaxVal} \cup {FromInt(100 + MaxVal)}

FloatSeqs == UNION {[1..n -> Floats] : n \in 0..MaxValues}

----------------------------------------------------------------------------
(* Specification of the aggregation pipeline:                               *)
(* sum_bytes, then to_rates of its output, then float_max of the rates      *)

NoRun == <<>>
NoResult == [panic |-> FALSE, cause |-> "none"]

Init ==
    /\ pc = "start"
    /\ \/ \E l \in RawLists :
             /\ input = Float(l)
             /\ interval \in Intervals
       \/ \E l \in ExampleLists :
             /\ input = Float(l)
             /\ interval \in ExampleIntervals
       \/ /\ input \in {Float(Scenario1), Float(Scenario2)}
          /\ interval = ScenarioInterval
    /\ throughput = <<>>
    /\ data = <<>>
    /\ panicked = FALSE
    /\ rates = <<>>
    /\ values = <<>>
    /\ fmax = NaN
    /\ run = NoRun
    /\ result = NoResult

SumBytes ==
    /\ pc = "start"
    /\ LET r == sum_bytes(input, interval)
       IN /\ throughput' = resampled(input, interval)
          /\ data' = r.data
          /\ panicked' = r.panic
          /\ pc' = IF r.panic THEN "panic" ELSE "summed"
    /\ UNCHANGED <<input, interval, rates, values, fmax, run, result>>

ToRates ==
    /\ pc = "summed"
    /\ rates' = to_rates(data)
    /\ pc' = "rated"
    /\ UNCHANGED <<input, interval, throughput, data, panicked, values, fmax, run, result>>

Seconds(s) == [j \in 1..Len(s) |-> s[j][2]]

FloatMax ==
    /\ pc = "rated"
    /\ values' = Seconds(rates)
    /\ fmax' = float_max(Seconds(rates))
    /\ pc' = "done"
    /\ UNCHANGED <<input, interval, throughput, data, panicked, rates, run, result>>

Next == SumBytes \/ ToRates \/ FloatMax

Spec == Init /\ [][Next]_vars

----------------------------------------------------------------------------
(* Specification of float_max on arbitrary f64 sequences *)

InitMax ==
    /\ pc = "max"
    /\ values \in FloatSeqs
    /\ input = <<>>
    /\ interval = 1
    /\ throughput = <<>>
    /\ data = <<>>
    /\ panicked = FALSE
    /\ rates = <<>>
    /\ fmax = NaN
    /\ run = NoRun
    /\ result = NoResult

FloatMaxValues ==
    /\ pc = "max"
    /\ fmax' = float_max(values)
    /\ pc' = "maxed"
    /\ UNCHANGED <<input, interval, throughput, data, panicked, rates, values, run, result>>

NextMax == FloatMaxValues

SpecMax == InitMax /\ [][NextMax]_vars

----------------------------------------------------------------------------
(* RawResult::to_test_result and save_graph_to_mem *)

None == [some |-> FALSE, v |-> <<>>]
Some(x) == [some |-> TRUE, v |-> x]

\* RawResult::both(): the run has a simultaneous (both) phase
both(r) == \E g \in 1..Len(r) : r[g].both

\* variant of overlay that leaves stream i itself out (0..i)
overlay_exclusive(group, i, step) == sum_bytes(Float(SubSeq(group.streams, 1, i - 1)), step)

\* the overlay of stream i of a group: sum_bytes over its streams 0..=i
overlay(group, i, step) == sum_bytes(Float(SubSeq(group.streams, 1, i)), step)

process_bytes(bytes, step) == sum_bytes(Float(bytes), step)

\* find(download, both) over the per-group sums `singles`
find(r, singles, download, isboth) ==
    LET m == {g \in 1..Len(r) : r[g].download = download /\ r[g].both = isboth}
    IN IF m = {} THEN None ELSE Some(singles[SetMin(m)].data)

\* [a.as_deref(), b.as_deref()].into_iter().flatten().collect()
flatten(a, b) ==
    (IF a.some THEN <<a.v>> ELSE <<>>) \o (IF b.some THEN <<b.v>> ELSE <<>>)

Panic(cause) ==
    [panic |-> TRUE, cause |-> cause, stream_groups |-> <<>>,
     download_bytes |-> None, upload_bytes |-> None,
     both_download_bytes |-> None, both_upload_bytes |-> None,
     combined_download_bytes |-> <<>>, combined_upload_bytes |-> <<>>,
     both_bytes |-> None]

\* variant of both_bytes_of that sums whichever both categories are present
both_bytes_partial(r, bd, bu, step) ==
    IF ~both(r) THEN [panic |-> FALSE, cause |-> "", v |-> None]
    ELSE LET b == sum_bytes(flatten(bd, bu), step)
         IN [panic |-> b.panic, cause |-> IF b.panic THEN "index" ELSE "",
             v |-> Some(b.data)]

\* both_bytes: unwrap() of a missing category panics; otherwise the sum of
\* the both-download and both-upload sums
both_bytes_of(r, bd, bu, step) ==
    IF ~both(r) THEN [panic |-> FALSE, cause |-> "", v |-> None]
    ELSE IF ~bd.some \/ ~bu.some THEN [panic |-> TRUE, cause |-> "unwrap", v |-> None]
    ELSE LET b == sum_bytes(<<bd.v, bu.v>>, step)
         IN [panic |-> b.panic, cause |-> IF b.panic THEN "index" ELSE "",
             v |-> Some(b.data)]

to_test_result(r, step) ==
    LET overlays == [g \in 1..Len(r) |->
                        [i \in 1..Len(r[g].streams) |-> overlay(r[g], i, step)]]
        singles == [g \in 1..Len(r) |-> process_bytes(r[g].streams, step)]
        download_bytes_sum == find(r, singles, TRUE, FALSE)
        both_download_bytes_sum == find(r, singles, TRUE, TRUE)
        combined_download == sum_bytes(flatten(download_bytes_sum, both_download_bytes_sum), step)
        upload_bytes_sum == find(r, singles, FALSE, FALSE)
        both_upload_bytes_sum == find(r, singles, FALSE, TRUE)
        combined_upload == sum_bytes(flatten(upload_bytes_sum, both_upload_bytes_sum), step)
        bb == both_bytes_of(r, both_download_bytes_sum, both_upload_bytes_sum, step)
    IN IF \/ \E g \in 1..Len(r) : \E i \in 1..Len(r[g].streams) : overlays[g][i].panic
          \/ \E g \in 1..Len(r) : singles[g].panic
          \/ combined_download.panic
          \/ combined_upload.panic
       THEN Panic("index")
       ELSE IF bb.panic THEN Panic(bb.cause)
       ELSE [panic |-> FALSE, cause |-> "",
             stream_groups |-> [g \in 1..Len(r) |->
                 [download |-> r[g].download, both |-> r[g].both,
                  streams |-> [i \in 1..Len(r[g].streams) |-> overlays[g][i].data]]],
             download_bytes |-> download_bytes_sum,
             upload_bytes |-> upload_bytes_sum,
             both_download_bytes |-> both_download_bytes_sum,
             both_upload_bytes |-> both_upload_bytes_sum,
             combined_download_bytes |-> combined_download.data,
             combined_upload_bytes |-> combined_upload.data,
             both_bytes |-> bb.v]

\* the rate series save_graph_to_mem pushes: Both, Upload, Download
graph_rates(res) ==
    (IF res.both_bytes.some THEN <<to_rates(res.both_bytes.v)>> ELSE <<>>)
    \o (IF res.upload_bytes.some \/ res.both_upload_bytes.some
        THEN <<to_rates(res.combined_upload_bytes)>> ELSE <<>>)
    \o (IF res.download_bytes.some \/ res.both_download_bytes.some
        THEN <<to_rates(res.combined_download_bytes)>> ELSE <<>>)

\* the rate series plot_split_throughput draws for one direction: to_rates of
\* every overlay of every group of that direction
split_rates(res, download) ==
    LET groups == SelectSeq(res.stream_groups, LAMBDA group : group.download = download)
    IN [g \in 1..Len(groups) |->
          [i \in 1..Len(groups[g].streams) |-> to_rates(groups[g].streams[i])]]

----------------------------------------------------------------------------
(* Specification of the assembly of a recorded run *)

\* the four categories (download, both), in the order a run records them
CategoryOrder == <<<<TRUE, FALSE>>, <<FALSE, FALSE>>, <<TRUE, TRUE>>, <<FALSE, TRUE>>>>

Increasing(f) == \A g \in 1..(Len(f) - 1) : f[g] < f[g + 1]

\* the streams of the recorded runs: different starts, ends and cadences
RunStreams ==
    {<<>>,
     <<<<1, 1>>>>,
     <<<<1, 0>>, <<MaxTime + 2, MaxVal + 1>>>>,
     <<<<0, 0>>, <<1, 1>>, <<MaxTime + 1, MaxVal + 2>>>>}

StreamLists == UNION {[1..n -> RunStreams] : n \in 0..RunMaxStreams}

\* where the streams of l are cut into n consecutive groups
Cuts(l, n) ==
    {c \in [1..(n + 1) -> 0..Len(l)] :
        /\ c[1] = 0
        /\ c[n + 1] = Len(l)
        /\ \A g \in 1..n : c[g] <= c[g + 1]}

RunOf(idx, l, c) ==
    [g \in 1..Len(idx) |->
        [download |-> CategoryOrder[idx[g]][1],
         both |-> CategoryOrder[idx[g]][2],
         streams |-> SubSeq(l, c[g] + 1, c[g + 1])]]

\* at most one stream group per category
Runs ==
    UNION {UNION {{RunOf(idx, l, c) : c \in Cuts(l, Len(idx))} : l \in StreamLists} :
           idx \in UNION {{f \in [1..n -> 1..4] : Increasing(f)} : n \in 0..RunMaxGroups}}

InitRun ==
    /\ pc = "run"
    /\ run \in Runs
    /\ interval \in Intervals
    /\ input = <<>>
    /\ throughput = <<>>
    /\ data = <<>>
    /\ panicked = FALSE
    /\ rates = <<>>
    /\ values = <<>>
    /\ fmax = NaN
    /\ result = NoResult

ToTestResult ==
    /\ pc = "run"
    /\ result' = to_test_result(run, interval)
    /\ pc' = IF result'.panic THEN "panic" ELSE "assembled"
    /\ UNCHANGED <<input, interval, throughput, data, panicked, rates, values, fmax, run>>

SaveGraph ==
    /\ pc = "assembled"
    /\ rates' = graph_rates(result)
    /\ pc' = "graphed"
    /\ UNCHANGED <<input, interval, throughput, data, panicked, values, fmax, run, result>>

NextRun == ToTestResult \/ SaveGraph

SpecRun == InitRun /\ [][NextRun]_vars

----------------------------------------------------------------------------
(* Properties of sum_bytes, interpolate and to_rates (specification Spec)   *)

Summed == pc \in {"summed", "rated", "done"}

\* C1: sum_bytes called with an empty list of series returns an empty series.
C1_EmptyListGivesEmptySeries ==
    (Summed /\ input = <<>>) => data = <<>>

\* C2: for a single series s (the empty series included), sum_bytes of the
\* one-element list [s] returns exactly interpolate(s, interval).
C2_SingleSeriesEqualsResample ==
    (Summed /\ Len(input) = 1) => data = interpolate(input[1], interval)

Scenario1Bytes ==
    <<<<0, FromInt(0)>>, <<500000, FromInt(500000)>>, <<1000000, FromInt(1000000)>>>>

Scenario1Run == input = Float(Scenario1) /\ interval = ScenarioInterval

\* C3 (as stated): scenario 1 aggregates to (0,0),(500000,500000),
\* (1000000,1000000) and its rate series is the five samples
\* (-1,0),(0,0),(500000,8.0),(1000000,8.0),(1000001,0).
C3_Scenario1FiveSamples ==
    (Scenario1Run /\ pc = "rated") =>
        /\ data = Scenario1Bytes
        /\ rates = <<<<0 - 1, FromInt(0)>>, <<0, FromInt(0)>>, <<500000, FromInt(8)>>,
                     <<1000000, FromInt(8)>>, <<1000001, FromInt(0)>>>>

\* C3 (amended): scenario 1 aggregates to (0,0),(500000,500000),
\* (1000000,1000000) and its rate series is exactly the four samples
\* (0,0),(500000,8.0),(1000000,8.0),(1000001,0): no sentinel precedes time 0.
C3_Scenario1FourSamples ==
    (Scenario1Run /\ pc = "rated") =>
        /\ data = Scenario1Bytes
        /\ rates = <<<<0, FromInt(0)>>, <<500000, FromInt(8)>>,
                     <<1000000, FromInt(8)>>, <<1000001, FromInt(0)>>>>

C3_Witness == Scenario1Run /\ pc = "rated" /\ Len(rates) = 4

\* the resampled series that have at least one sample
NonEmpty(tp) == {j \in 1..Len(tp) : tp[j] # <<>>}

\* C7: the output timestamps of sum_bytes are exactly the multiples of
\* interval from the smallest first grid point to the largest last grid point
\* of the resampled series, in strictly increasing order with consecutive
\* timestamps interval apart; an empty series has no range and does not
\* widen it.
C7_OutputRangeIsUnionOfRanges ==
    Summed =>
        LET ne == NonEmpty(throughput)
            lo == SetMin({throughput[j][1][1] : j \in ne})
            hi == SetMax({throughput[j][Len(throughput[j])][1] : j \in ne})
        IN ne # {} =>
                /\ Len(data) = (hi - lo) \div interval + 1
                /\ data[1][1] = lo
                /\ data[Len(data)][1] = hi
                /\ \A p \in 1..(Len(data) - 1) : data[p + 1][1] = data[p][1] + interval

\* what a resampled series adds at time p, stated on its timestamps alone
Expected(s, p) ==
    IF \E j \in 1..Len(s) : s[j][1] = p
    THEN s[CHOOSE j \in 1..Len(s) : s[j][1] = p][2]
    ELSE IF p < s[1][1] THEN FromInt(0)
    ELSE IF p > s[Len(s)][1] THEN s[Len(s)][2]
    ELSE NaN

RECURSIVE ExpectedSum(_, _, _)
ExpectedSum(tp, J, p) ==
    IF J = {} THEN FromInt(0)
    ELSE LET j == CHOOSE x \in J : TRUE
         IN FAdd(Expected(tp[j], p), ExpectedSum(tp, J \ {j}, p))

Scenario2Run == input = Float(Scenario2) /\ interval = ScenarioInterval

\* C8: every output value of sum_bytes is the sum, over the resampled series,
\* of the series' value at that grid point, 0 strictly before its first grid
\* point and its last value strictly after its last grid point; scenario 2
\* gives 0 at t=0, 250000 at t=500000 and 1000000 at t=1000000.
C8_PointwiseSum ==
    Summed =>
        /\ \A p \in 1..Len(data) :
              data[p][2] = ExpectedSum(throughput, NonEmpty(throughput), data[p][1])
        /\ Scenario2Run =>
              data = <<<<0, FromInt(0)>>, <<500000, FromInt(250000)>>,
                       <<1000000, FromInt(1000000)>>>>

C8_Witness ==
    /\ Summed
    /\ Len(throughput) = 2
    /\ throughput[1] # <<>>
    /\ throughput[2] # <<>>
    /\ \E p \in 1..Len(data) :
          /\ data[p][1] < throughput[1][1][1]
          /\ data[p][1] > throughput[2][Len(throughput[2])][1]
          /\ throughput[2][Len(throughput[2])][2] # FromInt(0)

\* C9: interpolate of a non-empty series has exactly one sample at every
\* multiple of interval from floor(first.time/interval)*interval to
\* ceil(last.time/interval)*interval, in increasing order, hence
\* (max-min)/interval + 1 samples and never none; empty input gives empty output.
C9_ResamplerGrid ==
    Summed =>
        \A j \in 1..Len(input) :
            LET s == input[j]
                out == throughput[j]
                first == s[1][1]
                last == s[Len(s)][1]
                lo == SetMax({m \in 0..first : m % interval = 0})
                hi == SetMin({m \in last..(last + interval) : m % interval = 0})
            IN IF s = <<>> THEN out = <<>>
               ELSE /\ out # <<>>
                    /\ Len(out) = (hi - lo) \div interval + 1
                    /\ {out[q][1] : q \in 1..Len(out)} =
                          {m \in lo..hi : m % interval = 0}
                    /\ \A q \in 1..(Len(out) - 1) : out[q][1] < out[q + 1][1]

C9_Witness ==
    /\ Summed
    /\ \E j \in 1..Len(input) :
          /\ input[j] # <<>>
          /\ input[j][1][1] % interval # 0
          /\ input[j][Len(input[j])][1] % interval # 0
          /\ Len(throughput[j]) >= 2

Between(v, a, b) == (FLe(a, v) /\ FLe(v, b)) \/ (FLe(b, v) /\ FLe(v, a))

\* C10: every resampled value is the last input value after the last sample,
\* the first input value at or before the first sample, the value of the
\* first sample with time >= p on an exact hit, and otherwise lies between
\* the values of the two samples that bracket p; every value is finite
\* (no division by zero).
C10_NoOvershoot ==
    Summed =>
        \A j \in 1..Len(input) : \A q \in 1..Len(throughput[j]) :
            LET s == input[j]
                p == throughput[j][q][1]
                v == throughput[j][q][2]
                after == {i \in 1..Len(s) : s[i][1] >= p}
                i == SetMin(after)
            IN /\ is_finite(v)
               /\ IF after = {} THEN v = s[Len(s)][2]
                  ELSE IF p <= s[1][1] THEN v = s[1][2]
                  ELSE IF s[i][1] = p THEN v = s[i][2]
                  ELSE Between(v, s[i - 1][2], s[i][2])

C10_Witness ==
    /\ Summed
    /\ \E j \in 1..Len(input) : \E q \in 1..Len(throughput[j]) :
          /\ Len(input[j]) = 2
          /\ input[j][1][1] < throughput[j][q][1]
          /\ throughput[j][q][1] < input[j][2][1]
          /\ FLt(input[j][1][2], throughput[j][q][2])
          /\ FLt(throughput[j][q][2], input[j][2][2])

----------------------------------------------------------------------------
(* Properties of float_max (specification SpecMax) *)

Finite(vs) == {j \in 1..Len(vs) : is_finite(vs[j])}
NotNaN(vs) == {j \in 1..Len(vs) : ~is_nan(vs[j])}

\* the largest of the values at the indices J (J non-empty, no NaN among them)
Largest(vs, J) == vs[CHOOSE j \in J : \A i \in J : FLe(vs[i], vs[j])]

----------------------------------------------------------------------------
(* Properties of to_test_result (specification SpecRun) *)

Assembled == pc \in {"assembled", "graphed", "panic"}

Present(download, isboth) ==
    \E g \in 1..Len(run) : run[g].download = download /\ run[g].both = isboth

StreamsOf(download, isboth) ==
    run[CHOOSE g \in 1..Len(run) : run[g].download = download /\ run[g].both = isboth].streams

\* C5: to_test_result produces both_bytes iff the run has a both phase; with
\* both the both-download and the both-upload group present it is the
\* sum_bytes of their two sums; with a both phase and either group missing
\* to_test_result panics and returns no result.
C5_BothTotal ==
    Assembled =>
        /\ ~both(run) => (~result.panic /\ ~result.both_bytes.some)
        /\ (both(run) /\ Present(TRUE, TRUE) /\ Present(FALSE, TRUE)) =>
              /\ ~result.panic
              /\ result.both_bytes =
                    Some(sum_bytes(<<sum_bytes(Float(StreamsOf(TRUE, TRUE)), interval).data,
                                     sum_bytes(Float(StreamsOf(FALSE, TRUE)), interval).data>>,
                                   interval).data)
        /\ (both(run) /\ ~(Present(TRUE, TRUE) /\ Present(FALSE, TRUE))) =>
              (result.panic /\ pc = "panic")

C5_Witness ==
    /\ pc = "panic"
    /\ both(run)
    /\ Present(TRUE, TRUE)
    /\ ~Present(FALSE, TRUE)
    /\ StreamsOf(TRUE, TRUE) # <<>>

----------------------------------------------------------------------------
(* Properties of sum_bytes over the pipeline and the assembly together     *)
(* (specification SpecAgg)                                                 *)

SpecAgg == (Init \/ InitRun) /\ [][Next \/ NextRun]_vars

\* C6: every grid point sum_bytes looks up in a resampled series is found
\* there, or lies before its first point or after its last point, so the
\* "unexpected index" panic is never hit, neither on raw streams nor when
\* to_test_result sums the outputs of earlier sums.
C6_NoUnexpectedIndex ==
    /\ ~panicked
    /\ pc = "panic" => result.cause = "unwrap"
    /\ Summed =>
          \A p \in 1..Len(data) : \A j \in NonEmpty(throughput) :
              LET s == throughput[j]
                  t == data[p][1]
              IN \/ \E q \in 1..Len(s) : s[q][1] = t
                 \/ t < s[1][1]
                 \/ t > s[Len(s)][1]

C6_Witness ==
    /\ pc = "assembled"
    /\ result.both_bytes.some
    /\ Len(result.both_bytes.v) >= 2
    /\ result.both_download_bytes.v[1][1] # result.both_upload_bytes.v[1][1]

----------------------------------------------------------------------------
(* Idempotence of interpolate (specification SpecAgg) *)

\* every timestamp is a multiple of step
GridAligned(s, step) == \A q \in 1..Len(s) : s[q][1] % step = 0

\* every timestamp is a multiple of step and exactly step after the previous one
GridContiguous(s, step) ==
    /\ GridAligned(s, step)
    /\ \A q \in 1..(Len(s) - 1) : s[q + 1][1] = s[q][1] + step

\* the one category sum a combined series is built from, when there is only one
OnlySum(a, b) == IF a.some THEN a.v ELSE b.v

\* C11 (as stated): interpolate returns unchanged every time-ascending series
\* whose timestamps are all multiples of interval; in particular interpolate
\* of an interpolate output is that output.
C11_AlignedUnchanged ==
    Summed =>
        \A j \in 1..Len(input) :
            /\ GridAligned(input[j], interval) => throughput[j] = input[j]
            /\ interpolate(throughput[j], interval) = throughput[j]

\* C11 (amended): interpolate returns unchanged every series whose timestamps
\* are multiples of interval, each exactly interval after the previous one;
\* in particular interpolate of an interpolate output is that output, and a
\* combined series built from a single category sum equals that sum.
C11_ContiguousUnchanged ==
    /\ Summed =>
          \A j \in 1..Len(input) :
              /\ GridContiguous(input[j], interval) => throughput[j] = input[j]
              /\ interpolate(throughput[j], interval) = throughput[j]
    /\ pc \in {"assembled", "graphed"} =>
          /\ result.download_bytes.some # result.both_download_bytes.some =>
                result.combined_download_bytes =
                    OnlySum(result.download_bytes, result.both_download_bytes)
          /\ result.upload_bytes.some # result.both_upload_bytes.some =>
                result.combined_upload_bytes =
                    OnlySum(result.upload_bytes, result.both_upload_bytes)

C11_Witness ==
    /\ Summed
    /\ \E j \in 1..Len(input) :
          /\ Len(input[j]) >= 2
          /\ GridContiguous(input[j], interval)
          /\ input[j][1][2] # input[j][2][2]
          /\ throughput[j] = input[j]

----------------------------------------------------------------------------
(* Specification of to_rates on arbitrary cumulative series *)

\* time-ascending series of up to MaxSamples + 1 samples, and the examples
RateInputs == {to_float(s) : s \in SeriesWithin(MaxSamples + 1) \cup Examples}

InitRates ==
    /\ pc = "summed"
    /\ data \in RateInputs
    /\ input = <<>>
    /\ interval = 1
    /\ throughput = <<>>
    /\ panicked = FALSE
    /\ rates = <<>>
    /\ values = <<>>
    /\ fmax = NaN
    /\ run = NoRun
    /\ result = NoResult

NextRates == ToRates \/ FloatMax

SpecRates == InitRates /\ [][NextRates]_vars

Rated == pc \in {"rated", "done"}

\* C12: for a non-empty series to_rates returns one sample per input sample
\* with the same timestamps, the first with rate 0, preceded by
\* (first_time - 1, 0.0) iff first_time > 0 and followed by (last_time + 1, 0.0):
\* 2 more samples than the input when first_time > 0, 1 more when it is 0;
\* for an empty series the output is empty.
C12_RateShape ==
    Rated =>
        IF data = <<>> THEN rates = <<>>
        ELSE LET n == Len(data)
                 off == IF data[1][1] > 0 THEN 1 ELSE 0
             IN /\ Len(rates) = n + off + 1
                /\ \A i \in 1..n : rates[i + off][1] = data[i][1]
                /\ rates[1 + off][2] = FromInt(0)
                /\ off = 1 => rates[1] = <<data[1][1] - 1, FromInt(0)>>
                /\ rates[Len(rates)] = <<data[n][1] + 1, FromInt(0)>>

C12_Witness ==
    /\ Rated
    /\ Len(data) >= 2
    /\ data[1][1] > 0
    /\ Len(rates) = Len(data) + 2
    /\ rates[3][2] # FromInt(0)

----------------------------------------------------------------------------
(* Properties of the per-stream overlays (specification SpecRun) *)

Done == pc \in {"assembled", "graphed"}

CategorySum(g) ==
    IF run[g].download
    THEN (IF run[g].both THEN result.both_download_bytes ELSE result.download_bytes)
    ELSE (IF run[g].both THEN result.both_upload_bytes ELSE result.upload_bytes)

\* C13: for every stream group with N >= 1 streams to_test_result produces
\* exactly N overlay series, overlay i being sum_bytes of the raw streams
\* 0..=i of the group at the run's interval, and the last overlay is the
\* merged byte series of the group's category.
C13_Overlays ==
    Done =>
        /\ Len(result.stream_groups) = Len(run)
        /\ \A g \in 1..Len(run) :
              LET n == Len(run[g].streams)
                  ov == result.stream_groups[g].streams
              IN n >= 1 =>
                    /\ Len(ov) = n
                    /\ \A i \in 1..n :
                          ov[i] = sum_bytes([k \in 1..i |-> to_float(run[g].streams[k])],
                                            interval).data
                    /\ CategorySum(g) = Some(ov[n])

C13_Witness ==
    /\ Done
    /\ \E g \in 1..Len(run) :
          /\ Len(run[g].streams) = 2
          /\ Len(result.stream_groups[g].streams) = 2
          /\ result.stream_groups[g].streams[1] # result.stream_groups[g].streams[2]
          /\ CategorySum(g).v = result.stream_groups[g].streams[2]

----------------------------------------------------------------------------
(* Re-aggregation (specification SpecAgg) *)

Front(l) == SubSeq(l, 1, Len(l) - 1)

\* the raw streams of the category (download, isboth), none when it is absent
RawOf(download, isboth) ==
    IF Present(download, isboth) THEN StreamsOf(download, isboth) ELSE <<>>

\* sum_bytes of a list with at least two series is sum_bytes of the sum of
\* all but the last and the last
PrefixAssociative ==
    (Summed /\ Len(input) >= 2) =>
        data = sum_bytes(<<sum_bytes(Front(input), interval).data, input[Len(input)]>>,
                         interval).data

\* overlay i (i >= 1) is sum_bytes of overlay i-1 and stream i
OverlayIncremental ==
    Done =>
        \A g \in 1..Len(run) : \A i \in 2..Len(run[g].streams) :
            result.stream_groups[g].streams[i] =
                sum_bytes(<<result.stream_groups[g].streams[i - 1],
                            to_float(run[g].streams[i])>>, interval).data

\* the combined series are sum_bytes of all raw streams of their two categories
CombinedIsSumOfAll ==
    Done =>
        /\ result.combined_download_bytes =
              sum_bytes(Float(RawOf(TRUE, FALSE) \o RawOf(TRUE, TRUE)), interval).data
        /\ result.combined_upload_bytes =
              sum_bytes(Float(RawOf(FALSE, FALSE) \o RawOf(FALSE, TRUE)), interval).data

\* C14: sum_bytes of [sum_bytes(xs), y] equals sum_bytes of xs ++ [y] for
\* every non-empty xs, so overlay i (i >= 1) equals sum_bytes of overlay i-1
\* and stream i, and combined_download equals sum_bytes of all raw streams of
\* the download-only and both-download categories taken together.
C14_AssociativeOverPrefixes ==
    /\ PrefixAssociative
    /\ OverlayIncremental
    /\ CombinedIsSumOfAll

----------------------------------------------------------------------------
(* Monotonicity (specification SpecAgg) *)

NonDecreasing(s) == \A q \in 1..(Len(s) - 1) : FLe(s[q][2], s[q + 1][2])
NonNegative(s) == \A q \in 1..Len(s) : FLe(FromInt(0), s[q][2])

\* cumulative counters: values never fall and are never negative
Cumulative(l) == \A j \in 1..Len(l) : NonDecreasing(l[j]) /\ NonNegative(l[j])

RunCumulative == \A g \in 1..Len(run) : Cumulative(Float(run[g].streams))

OptionNonDecreasing(o) == o.some => NonDecreasing(o.v)

\* C15: when every raw stream has non-decreasing, non-negative values, every
\* resampled series and every sum_bytes output (per category, combined,
\* both_bytes and each overlay) has non-decreasing values, and every rate
\* to_rates computes from such a series is >= 0.
C15_MonotonePreserved ==
    /\ (Summed /\ Cumulative(input)) =>
          /\ \A j \in 1..Len(throughput) : NonDecreasing(throughput[j])
          /\ NonDecreasing(data)
          /\ Rated => NonNegative(rates)
    /\ (Done /\ RunCumulative) =>
          /\ OptionNonDecreasing(result.download_bytes)
          /\ OptionNonDecreasing(result.upload_bytes)
          /\ OptionNonDecreasing(result.both_download_bytes)
          /\ OptionNonDecreasing(result.both_upload_bytes)
          /\ OptionNonDecreasing(result.both_bytes)
          /\ NonDecreasing(result.combined_download_bytes)
          /\ NonDecreasing(result.combined_upload_bytes)
          /\ \A g \in 1..Len(result.stream_groups) :
                \A i \in 1..Len(result.stream_groups[g].streams) :
                    NonDecreasing(result.stream_groups[g].streams[i])
          /\ \A d \in BOOLEAN :
                LET sr == split_rates(result, d)
                IN \A g \in 1..Len(sr) : \A i \in 1..Len(sr[g]) : NonNegative(sr[g][i])
          /\ pc = "graphed" => \A k \in 1..Len(rates) : NonNegative(rates[k])

C15_Witness ==
    /\ pc = "graphed"
    /\ RunCumulative
    /\ result.both_bytes.some
    /\ Len(result.both_bytes.v) >= 3
    /\ FLt(result.both_bytes.v[1][2], result.both_bytes.v[2][2])
    /\ \E q \in 1..Len(rates[1]) : FLt(FromInt(0), rates[1][q][2])

====
